---- MODULE Spec2Model ----
(***************************************************************************)
(* Lazy value resolution engine of architect: the flat store of weighted   *)
(* declarations (Lazy), its accessor (LazyProxy) and the result builder.   *)
(*                                                                         *)
(* Values are tagged records:                                              *)
(*   [t |-> "u"]                      undefined                            *)
(*   [t |-> "s", v |-> str]           a scalar (strings; "true"/"false"    *)
(*                                    stand for the booleans)              *)
(*   [t |-> "r", f |-> fun, id |-> n] a record (plain object)              *)
(*   [t |-> "l", e |-> seq, id |-> n] a list (array)                       *)
(*   [t |-> "p", path |-> p]          an accessor (LazyProxy) of the store *)
(*   [t |-> "fn", ret |-> v]          a resolver function returning v      *)
(*   [t |-> "ref", path |-> p, fallback |-> v]                             *)
(*                                    the resolver $ref(v => v.p, fallback) *)
(*   [t |-> "all", cs |-> seq]        the condition combineConditions(...cs)*)
(* id is the identity of a stored object: 0 for a fresh object, i for the  *)
(* object held by declaration i of the store (only get hands those out).   *)
(***************************************************************************)
EXTENDS Integers, Sequences, FiniteSets, TLC

VARIABLES values, last, running, theTarget

vars == <<values, last, running, theTarget>>

MAX_EVALUATION_DEPTH == 100

\* path.concat(-1): the key under which set() files every array element
AppendKey == "-1"

\* Object.entries() order of the record keys used by the model
KeyOrder == <<"a", "b", "x", "y", "$set">>

Undef == [t |-> "u"]
Scalar(s) == [t |-> "s", v |-> s]
Rec(f) == [t |-> "r", f |-> f, id |-> 0]
List(e) == [t |-> "l", e |-> e, id |-> 0]
Proxy(p) == [t |-> "p", path |-> p]
Fn(r) == [t |-> "fn", ret |-> r]
Ref(p, fallback) == [t |-> "ref", path |-> p, fallback |-> fallback]
Combined(cs) == [t |-> "all", cs |-> cs]
NoKeys == [k \in {} |-> Undef]
EmptyRec == Rec(NoKeys)
EmptyList == List(<<>>)
True == Scalar("true")
False == Scalar("false")

IsRecord(v) == v.t = "r"
IsList(v) == v.t = "l"
IsProxy(v) == v.t = "p"
IsFunction(v) == v.t = "fn"
IsRef(v) == v.t = "ref"
IsCombined(v) == v.t = "all"

Ok(v) == [k |-> "ok", v |-> v, m |-> ""]
TypeError(m) == [k |-> "TypeError", v |-> Undef, m |-> m]
DepthError == [k |-> "Error", v |-> Undef, m |-> "depth"]
\* a call that has not returned, and never returns when it waits for itself
Pending == [k |-> "Pending", v |-> Undef, m |-> ""]

\* JavaScript truthiness of a resolved condition
Truthy(v) == IF v.t = "u" THEN FALSE
             ELSE IF v.t = "s" THEN v.v \notin {"false", ""}
             ELSE TRUE

\* paths.ts (not in the source tree): a value set() splits into its members
isObjectDeepKeys(v) == IsRecord(v) \/ IsList(v)

\* objects.ts (not in the source tree): a record or list with no member
isEmptyObject(v) == (IsRecord(v) /\ DOMAIN v.f = {}) \/ (IsList(v) /\ v.e = <<>>)

\* _.cloneDeep: a structurally equal value made of fresh objects
RECURSIVE cloneDeep(_)
cloneDeep_NoClone(v) == v
cloneDeep(v) ==
    IF IsRecord(v) THEN [t |-> "r", f |-> [k \in DOMAIN v.f |-> cloneDeep(v.f[k])], id |-> 0]
    ELSE IF IsList(v) THEN [t |-> "l", e |-> [i \in 1..Len(v.e) |-> cloneDeep(v.e[i])], id |-> 0]
    ELSE v

\* the object held by declaration i of the store
Stored(v, i) == IF isObjectDeepKeys(v) THEN [v EXCEPT !.id = i] ELSE v

\* curr[key] for a string key that is no array index
Index(curr, key) ==
    IF IsRecord(curr) /\ key \in DOMAIN curr.f THEN curr.f[key] ELSE Undef

IsPrefix(p, q) == Len(p) <= Len(q) /\ SubSeq(q, 1, Len(p)) = p

\* _.isEqual(array.slice(0, prefix.length), prefix)
arrayStartsWith_Equal(array, prefix) == array = prefix
arrayStartsWith(array, prefix) ==
    SubSeq(array, 1, IF Len(prefix) < Len(array) THEN Len(prefix) ELSE Len(array)) = prefix

(***************************************************************************)
(* PathResultBuilder (paths.ts, missing from the source tree), from §4.2   *)
(* of the specification: writes are applied in the order given; a scalar   *)
(* or a forced write replaces, a record merges key by key, a list          *)
(* concatenates; the append key adds a new list element.                   *)
(***************************************************************************)
RECURSIVE MergeValue(_, _)
MergeValue(target, value) ==
    IF IsRecord(value) /\ IsRecord(target)
    THEN [target EXCEPT !.f =
            [k \in (DOMAIN target.f) \cup (DOMAIN value.f) |->
                IF k \in DOMAIN value.f
                THEN MergeValue(Index(target, k), value.f[k])
                ELSE target.f[k]]]
    ELSE IF IsList(value) /\ IsList(target)
    THEN [target EXCEPT !.e = target.e \o value.e]
    ELSE value

RECURSIVE PathMerge(_, _, _, _)
PathMerge(target, value, path, force) ==
    IF path = <<>>
    THEN IF force THEN value ELSE MergeValue(target, value)
    ELSE IF Head(path) = AppendKey
    THEN LET base == IF IsList(target) THEN target ELSE EmptyList
         IN [base EXCEPT !.e = Append(base.e, PathMerge(Undef, value, Tail(path), force))]
    ELSE LET base == IF IsRecord(target) THEN target ELSE EmptyRec
             key == Head(path)
         IN [base EXCEPT !.f =
                [k \in (DOMAIN base.f) \cup {key} |->
                    IF k = key
                    THEN PathMerge(Index(base, key), value, Tail(path), force)
                    ELSE base.f[k]]]

\* builder.set(path, value, force, weight)
BuilderSet(builder, path, value, force, weight) ==
    Append(builder, [path |-> path, value |-> value, force |-> force, weight |-> weight])

\* builder.resolve(): undefined when nothing was written
RECURSIVE BuilderFold(_, _)
BuilderFold(target, writes) ==
    IF writes = <<>> THEN target
    ELSE BuilderFold(PathMerge(target, Head(writes).value, Head(writes).path, Head(writes).force),
                     Tail(writes))

BuilderResolve(builder) == BuilderFold(Undef, builder)

(***************************************************************************)
(* objects.ts recursiveMerge(object, source): _.mergeWith with arrays      *)
(* concatenated; merges source into object.                                *)
(***************************************************************************)
RECURSIVE recursiveMerge(_, _)
recursiveMerge(object, source) ==
    IF IsList(object)
    THEN [object EXCEPT !.e = object.e \o (IF IsList(source) THEN source.e ELSE <<source>>), !.id = 0]
    ELSE IF IsRecord(object) /\ IsRecord(source)
    THEN [object EXCEPT !.f =
            [k \in (DOMAIN object.f) \cup (DOMAIN source.f) |->
                IF k \notin DOMAIN source.f THEN object.f[k]
                ELSE IF k \notin DOMAIN object.f THEN source.f[k]
                ELSE IF IsList(object.f[k]) THEN recursiveMerge(object.f[k], source.f[k])
                ELSE IF source.f[k] = Undef THEN object.f[k]
                ELSE IF isObjectDeepKeys(source.f[k]) /\ IsRecord(object.f[k]) /\ IsRecord(source.f[k])
                     THEN recursiveMerge(object.f[k], source.f[k])
                ELSE source.f[k]]]
    ELSE object

(***************************************************************************)
(* Lazy: the store.  A declaration is                                      *)
(*   [path, value, weight, force, condition]                               *)
(* and `values` is the list of them in the order they were recorded.       *)
(***************************************************************************)
Decl(path, value, weight, force, condition) ==
    [path |-> path, value |-> value, weight |-> weight, force |-> force,
     condition |-> condition]

\* the keys of a record in Object.entries() order
EntryKeys(v) == SelectSeq(KeyOrder, LAMBDA k : k \in DOMAIN v.f)

\* Lazy.set: the declarations one call records, in order
SetDecls_NoSplit(path, value_, weight, force, condition) ==
    <<Decl(path, IF IsProxy(value_) THEN Fn(value_) ELSE value_, weight, force, condition)>>
RECURSIVE SetDecls(_, _, _, _, _)
RECURSIVE SetEach(_, _, _, _, _, _)
SetDecls(path, value_, weight, force, condition) ==
    LET value == IF IsProxy(value_) THEN Fn(value_) ELSE value_
    IN IF ~isObjectDeepKeys(value) \/ isEmptyObject(value) \/ force
       THEN <<Decl(path, value, weight, force, condition)>>
       ELSE IF IsList(value)
       THEN SetEach(path, [i \in 1..Len(value.e) |-> <<AppendKey, value.e[i]>>],
                    weight, force, condition, 1)
       ELSE SetEach(path, [i \in 1..Len(EntryKeys(value)) |->
                              <<EntryKeys(value)[i], value.f[EntryKeys(value)[i]]>>],
                    weight, force, condition, 1)

\* the loop over the members: this.set(path.concat(k), v, weight, force, condition)
SetEach(path, entries, weight, force, condition, i) ==
    IF i > Len(entries) THEN <<>>
    ELSE SetDecls(Append(path, entries[i][1]), entries[i][2], weight, force, condition)
         \o SetEach(path, entries, weight, force, condition, i + 1)

\* _.sortBy(values, v => v.weight): stable insertion by weight
RECURSIVE SortByWeight(_, _)
InsertByWeight(vals, sorted, i) ==
    LET before == SelectSeq(sorted, LAMBDA j : vals[j].weight <= vals[i].weight)
        after == SelectSeq(sorted, LAMBDA j : vals[j].weight > vals[i].weight)
    IN before \o <<i>> \o after
SortByWeight(vals, idxs) ==
    IF idxs = <<>> THEN <<>>
    ELSE InsertByWeight(vals, SortByWeight(vals, SubSeq(idxs, 1, Len(idxs) - 1)),
                        idxs[Len(idxs)])

Indices(vals) == [i \in 1..Len(vals) |-> i]

\* the while loop of matchValues: the declarations at curr, then at each prefix of it
RECURSIVE MatchUp(_, _)
MatchUp(vals, curr) ==
    SelectSeq(Indices(vals), LAMBDA i : vals[i].path = curr)
    \o (IF Len(curr) <= 0 THEN <<>> ELSE MatchUp(vals, SubSeq(curr, 1, Len(curr) - 1)))

\* the declarations below path
MatchChildren_All(vals, path) ==
    SelectSeq(Indices(vals), LAMBDA i : Len(vals[i].path) > 0 /\ vals[i].path # path)
MatchChildren(vals, path) ==
    SelectSeq(Indices(vals), LAMBDA i :
        Len(vals[i].path) > 0 /\ arrayStartsWith(vals[i].path, path) /\ vals[i].path # path)

\* Lazy.matchValues: indices into the store, in the order get applies them
matchValues_Unsorted(vals, path) == MatchUp(vals, path) \o MatchChildren(vals, path)
matchValues(vals, path) ==
    SortByWeight(vals, MatchUp(vals, path) \o MatchChildren(vals, path))

\* the traversal at the end of get
RECURSIVE Walk(_, _)
RECURSIVE Walk_Lenient(_, _)
Walk_Lenient(curr, path) ==
    IF path = <<>> THEN Ok(curr)
    ELSE Walk_Lenient(Index(curr, Head(path)), Tail(path))
Walk(curr, path) ==
    IF path = <<>> THEN Ok(curr)
    ELSE IF curr = Undef THEN TypeError("undefined")
    ELSE Walk(Index(curr, Head(path)), Tail(path))

\* depth > MAX_EVALUATION_DEPTH
DepthExceeded_AtLimit(depth) == depth >= MAX_EVALUATION_DEPTH
DepthExceeded(depth) == depth > MAX_EVALUATION_DEPTH

(***************************************************************************)
(* $resolve and get call each other through references and conditions, a   *)
(* nested call running one level deeper than its caller.  `nested` is the  *)
(* table of the outcomes of q.$resolve(undefined, depth) for the accessors *)
(* q the store refers to, i.e. of the calls that run at depth + 1          *)
(* (nested.at), and of q.$resolve(undefined, 0) for the accessors q the    *)
(* conditions made by combineConditions refer to (nested.fresh).           *)
(***************************************************************************)

\* (await Promise.all(outcomes)).every(c => c): every condition has been started;
\* the first that failed rejects the whole
every_ShortCircuit(outcomes) ==
    LET stops == { n \in 1..Len(outcomes) :
                     outcomes[n].k # "ok" \/ ~Truthy(outcomes[n].v) }
        n == CHOOSE m \in stops : \A o \in stops : m <= o
    IN IF stops = {} THEN Ok(True)
       ELSE IF outcomes[n].k # "ok" THEN outcomes[n]
       ELSE Ok(False)
every(outcomes) ==
    LET failed == { n \in 1..Len(outcomes) : outcomes[n].k # "ok" }
    IN IF failed # {} THEN outcomes[CHOOSE n \in failed : \A m \in failed : n <= m]
       ELSE IF \A n \in 1..Len(outcomes) : Truthy(outcomes[n].v) THEN Ok(True)
       ELSE Ok(False)

\* Lazy.resolveCondition(condition, depth); a condition made by combineConditions
\* calls Lazy.resolveCondition(c) for each of its conditions, i.e. at depth 0
RECURSIVE resolveCondition(_, _)
resolveCondition(condition, nested) ==
    IF IsProxy(condition) THEN nested.at[condition.path]
    ELSE IF IsCombined(condition)
    THEN every([n \in 1..Len(condition.cs) |->
                    resolveCondition(condition.cs[n],
                                     [at |-> nested.fresh, fresh |-> nested.fresh])])
    ELSE LET resolved == condition.ret
         IN IF IsProxy(resolved) THEN nested.at[resolved.path] ELSE Ok(resolved)

\* if (isProxy(temp)) temp = await temp.$resolve(undefined, depth)
Evaluated_NotFollowed(temp, nested) == Ok(temp)
Evaluated(temp, nested) ==
    IF IsProxy(temp) THEN nested.at[temp.path] ELSE Ok(temp)

\* the resolver made by $ref(func, fallback), func leading to the accessor at
\* path: what func's target evaluates to, the fallback in place of a TypeError
ref_Rethrows(path, fallback, nested) == nested.at[path]
ref(path, fallback, nested) ==
    LET tree == nested.at[path]
    IN IF tree.k = "TypeError" /\ fallback # Undef THEN Ok(fallback) ELSE tree

\* temp = await value.value() for a resolver, value.value for anything else
Invoked(value, i, nested) ==
    IF IsRef(value.value) THEN ref(value.value.path, value.value.fallback, nested)
    ELSE IF IsFunction(value.value) THEN Ok(value.value.ret)
    ELSE Ok(Stored(value.value, i))

\* if (value.condition) ... await Lazy.resolveCondition(value.condition, depth)
Conditioned_Always(value, nested) == Ok(True)
Conditioned(value, nested) ==
    IF value.condition # Undef THEN resolveCondition(value.condition, nested)
    ELSE Ok(True)

\* LazyProxy.is(temp) ? await temp.$resolve(undefined, depth) : temp
Followed(temp, nested) ==
    IF temp.k = "ok" THEN Evaluated(temp.v, nested) ELSE temp

\* the for loop of get over the matched declarations; yields the builder.
\* GetStep is one round of it: c is what the condition of the declaration resolved
\* to and r what its value evaluated to
RECURSIVE GetLoop(_, _, _, _)
GetStep(vals, matched, nested, builder, c, r) ==
    IF c.k # "ok" THEN c
    ELSE IF ~Truthy(c.v) THEN GetLoop(vals, Tail(matched), nested, builder)
    ELSE IF r.k # "ok" THEN r
    ELSE GetLoop(vals, Tail(matched), nested,
                 BuilderSet(builder, vals[Head(matched)].path, cloneDeep(r.v),
                            vals[Head(matched)].force, vals[Head(matched)].weight))

GetLoop(vals, matched, nested, builder) ==
    IF matched = <<>> THEN Ok(builder)
    ELSE GetStep(vals, matched, nested, builder,
                 Conditioned(vals[Head(matched)], nested),
                 Followed(Invoked(vals[Head(matched)], Head(matched), nested), nested))

\* const result = builder.resolve()
Built(b) == IF b.k # "ok" THEN b ELSE Ok(BuilderResolve(b.v))

\* get from the matched declarations up to builder.resolve()
Matched(vals, matched, nested) ==
    IF Len(matched) <= 0 THEN TypeError("notfound")
    ELSE Built(GetLoop(vals, matched, nested, <<>>))

\* get up to builder.resolve(): the merged tree, or the error raised
GetBuild(vals, path, nested) == Matched(vals, matchValues(vals, path), nested)

\* the end of get: the traversal into the result
Traverse(b, path) ==
    IF b.k # "ok" THEN b
    ELSE IF b.v = Undef THEN Ok(Undef)
    ELSE Walk(b.v, path)

\* Lazy.get(path, depth)
Get(vals, path, nested) == Traverse(GetBuild(vals, path, nested), path)

\* the catch of $resolve: error instanceof TypeError && fallback !== undefined
Recovers_AnyError(error, fallback) == fallback # Undef
Recovers(error, fallback) == error.k = "TypeError" /\ fallback # Undef

\* the try block of $resolve around r, the outcome of root.get(path, depth)
Tried(r, fallback) ==
    IF r.k = "ok"
    THEN IF fallback # Undef
         THEN IF r.v # Undef /\ isObjectDeepKeys(r.v)
              THEN Ok(recursiveMerge(fallback, r.v))
              ELSE Ok(fallback)
         ELSE r
    ELSE IF Recovers(r, fallback) THEN Ok(fallback)
    ELSE r

\* LazyProxy.$resolve(fallback, depth) of the accessor at path
ResolveWith(vals, path, fallback, depth0, nested) ==
    IF DepthExceeded(depth0 + 1) THEN DepthError
    ELSE Tried(Get(vals, path, nested), fallback)

\* the accessors the store holds as values or conditions
RECURSIVE Targets(_)
Targets(v) == IF IsProxy(v) \/ IsRef(v) THEN {v.path}
              ELSE IF IsFunction(v) /\ IsProxy(v.ret) THEN {v.ret.path}
              ELSE IF IsCombined(v) THEN UNION {Targets(v.cs[n]) : n \in 1..Len(v.cs)}
              ELSE {}
NestedPaths(vals) ==
    UNION {Targets(vals[i].value) \cup Targets(vals[i].condition) : i \in 1..Len(vals)}

\* the outcomes of the nested calls that run at depth MAX_EVALUATION_DEPTH + 1
Deepest(vals, fresh) ==
    [at |-> [q \in NestedPaths(vals) |->
                ResolveWith(vals, q, Undef, MAX_EVALUATION_DEPTH, <<>>)],
     fresh |-> fresh]

\* from the outcomes of the calls running at depth d, those of the calls running
\* at depth `target`; a table equal to the one below it stays the same above
RECURSIVE Descend(_, _, _, _)
Above(vals, table, d) ==
    [at |-> [q \in NestedPaths(vals) |-> ResolveWith(vals, q, Undef, d - 2, table)],
     fresh |-> table.fresh]
Ascend(vals, table, above, d, target) ==
    IF above = table THEN table ELSE Descend(vals, above, d - 1, target)
Descend(vals, table, d, target) ==
    IF d <= target THEN table
    ELSE Ascend(vals, table, Above(vals, table, d), d, target)

NestedWith(vals, depth, fresh) ==
    Descend(vals, Deepest(vals, fresh), MAX_EVALUATION_DEPTH + 1, depth)

\* the accessors the conditions made by combineConditions refer to
CombinedPaths(vals) ==
    UNION { IF IsCombined(vals[i].condition) THEN Targets(vals[i].condition) ELSE {}
            : i \in 1..Len(vals) }

\* the outcomes of q.$resolve(undefined, 0): each call returns once the calls it
\* waits for have returned
RECURSIVE Settle(_, _, _)
Returned(vals, nested) ==
    [q \in CombinedPaths(vals) |-> ResolveWith(vals, q, Undef, 0, nested)]
Settling(vals, fresh, next, fuel) ==
    IF next = fresh \/ fuel <= 0 THEN fresh ELSE Settle(vals, next, fuel - 1)
Settle(vals, fresh, fuel) ==
    Settling(vals, fresh, Returned(vals, NestedWith(vals, 2, fresh)), fuel)

Fresh(vals) ==
    Settle(vals, [q \in CombinedPaths(vals) |-> Pending],
           Cardinality(CombinedPaths(vals)) + 1)

NestedAt(vals, depth) == NestedWith(vals, depth, Fresh(vals))

\* path.$resolve(fallback, depth0) on the store vals
Resolve(vals, path, fallback, depth0) ==
    ResolveWith(vals, path, fallback, depth0, NestedAt(vals, depth0 + 2))

\* the stored objects found in a tree handed out by the builder
RECURSIVE Aliased(_, _)
Aliased(tree, i) ==
    IF IsRecord(tree)
    THEN (IF tree.id = i THEN {tree} ELSE {})
         \cup UNION {Aliased(tree.f[k], i) : k \in DOMAIN tree.f}
    ELSE IF IsList(tree)
    THEN (IF tree.id = i THEN {tree} ELSE {})
         \cup UNION {Aliased(tree.e[n], i) : n \in 1..Len(tree.e)}
    ELSE {}

\* the store after the builder has merged into `tree`: a declaration whose own
\* object sits in the tree now holds what was merged into it
StoreAfter(vals, tree) ==
    [i \in 1..Len(vals) |->
        IF Aliased(tree, i) = {} THEN vals[i]
        ELSE [vals[i] EXCEPT !.value = [(CHOOSE n \in Aliased(tree, i) : TRUE) EXCEPT !.id = 0]]]

(***************************************************************************)
(* The state machine: one store (`values`, Lazy.values) behind the root    *)
(* accessor, and `last`, the last call made on an accessor and its outcome.*)
(* `running` holds the $resolve() calls in flight at once (SpecRun) and    *)
(* `theTarget` the Target that configures and builds components            *)
(* (SpecTarget).                                                           *)
(***************************************************************************)
MaxDecls == 3

\* the weights set() is called with (the default is 0)
Weights == {-1, 0}

S1 == Scalar("1")
S2 == Scalar("2")
S3 == Scalar("3")

\* the $resolve() calls that can be in flight at once, and one that has not been
\* made: matched is what is left of the matched declarations, builder the
\* call's own PathResultBuilder, temp the value under evaluation
Procs == {1, 2}
NotStarted ==
    [pc |-> "idle", path |-> <<>>, matched |-> <<>>, builder |-> <<>>,
     temp |-> Undef, out |-> Pending, beside |-> {}]
NoneRunning == [i \in Procs |-> NotStarted]

\* the components of a Target and their children (Component.children)
Components == { "p", "q", "r" }
Children(c) == IF c = "p" THEN <<"p1", "p2">> ELSE <<>>
Units == Components \cup { "p1", "p2" }

\* a Target: components.data, the components whose props.enable is true, the
\* values and params.requirements of the resolve under way, and how far
\* configure and build of each component have got
NewTarget(version) ==
    [version |-> version, data |-> {}, enable |-> {}, requirements |-> TRUE,
     phase |-> "idle", values |-> {},
     configure |-> [c \in Units |-> "no"], build |-> [c \in Units |-> "no"]]
NoTarget == NewTarget("B")

\* a call and its outcome; left is the argument object as the call leaves it
Called(op, path, arg, depth, out) ==
    [op |-> op, path |-> path, arg |-> arg, depth |-> depth, out |-> out,
     weight |-> 0, force |-> FALSE, condition |-> Undef, left |-> arg]

\* the call accessor.$set(value, weight, force, condition) on the accessor of path
CalledSet(path, value, weight, force, condition) ==
    [Called("set", path, value, 0, Ok(Undef))
        EXCEPT !.weight = weight, !.force = force, !.condition = condition]

\* Lazy.from(value): new Lazy(value) runs this.set([], value)
From(value) == SetDecls(<<>>, value, 0, FALSE, Undef)

\* accessor.$set(value, weight, force, condition) -> root.set(path, ...)
SetOp_Prepend(path, value, weight, force, condition) ==
    LET recorded == SetDecls(path, value, weight, force, condition)
    IN /\ Len(values) + Len(recorded) <= MaxDecls
       /\ values' = recorded \o values
       /\ last' = CalledSet(path, value, weight, force, condition)
       /\ UNCHANGED <<running, theTarget>>
SetOp(path, value, weight, force, condition) ==
    LET recorded == SetDecls(path, value, weight, force, condition)
    IN /\ Len(values) + Len(recorded) <= MaxDecls
       /\ values' = values \o recorded
       /\ last' = CalledSet(path, value, weight, force, condition)
       /\ UNCHANGED <<running, theTarget>>

\* accessor.$resolve(fallback, depth)
Merged(vals, depth0, b) ==
    IF DepthExceeded(depth0 + 1) \/ b.k # "ok" THEN vals ELSE StoreAfter(vals, b.v)
\* the fallback object after $resolve: _.mergeWith(fallback, result) merges into
\* its first argument; an array fallback is concatenated into a new array
FallbackLeft(r, fallback, depth0) ==
    IF /\ ~DepthExceeded(depth0 + 1)
       /\ r.k = "ok" /\ fallback # Undef
       /\ r.v # Undef /\ isObjectDeepKeys(r.v)
       /\ ~IsList(fallback)
    THEN recursiveMerge(fallback, r.v)
    ELSE fallback
ResolveIn(path, fallback, depth0, nested) ==
    /\ last' = [Called("resolve", path, fallback, depth0,
                       ResolveWith(values, path, fallback, depth0, nested))
                    EXCEPT !.left = FallbackLeft(Get(values, path, nested), fallback, depth0)]
    /\ values' = Merged(values, depth0, GetBuild(values, path, nested))
    /\ UNCHANGED <<running, theTarget>>
ResolveOp(path, fallback, depth0) ==
    ResolveIn(path, fallback, depth0, NestedAt(values, depth0 + 2))

(***************************************************************************)
(* Spec: plain data declared with weights and force, resolved at every     *)
(* path.                                                                   *)
(***************************************************************************)
\* the error the defineProperty and deleteProperty traps throw
MutationError == [k |-> "Error", v |-> Undef, m |-> "mutation"]

\* an own member of the accessor object ($resolve, $set, $__root__, $__path__)
Members == { "$resolve", "$set", "$__root__", "$__path__" }
Member(name) == [t |-> "m", name |-> name]

\* accessor(key): a new accessor for the path extended by the key;
\* self is the path of the accessor that was read, after the read
accessor_InPlace(path, key) ==
    [self |-> Append(path, key), made |-> Proxy(Append(path, key))]
accessor(path, key) ==
    [self |-> path, made |-> Proxy(Append(path, key))]

\* the get trap: an own member is handed out, any other name is navigation
get(path, p) ==
    IF p \in Members THEN [self |-> path, made |-> Member(p)]
    ELSE accessor(path, p)

\* the defineProperty trap
defineProperty_Declares(vals, path, property, value) ==
    [out |-> Ok(True),
     values |-> vals \o SetDecls(Append(path, property), value, 0, FALSE, Undef)]
defineProperty(vals, path, property, value) ==
    [out |-> MutationError, values |-> vals]

\* the deleteProperty trap
deleteProperty(vals, path, property) ==
    [out |-> MutationError, values |-> vals]

\* accessor.property = value: the handler has no set trap, so the assignment
\* runs the target's ordinary [[Set]] with the proxy as receiver, which ends in
\* the receiver's [[DefineOwnProperty]], the defineProperty trap
assign(vals, path, property, value) ==
    defineProperty(vals, path, property, value)

\* one read of a property through an accessor
GetOp(path, p) ==
    LET r == get(path, p)
    IN /\ last' = Called("get", r.self, Scalar(p), 0, Ok(r.made))
       /\ UNCHANGED <<values, running, theTarget>>

\* one attempt to assign, define or delete a property through an accessor
MutateOp(kind, path, property, value) ==
    LET r == CASE kind = "assign" -> assign(values, path, property, value)
               [] kind = "define" -> defineProperty(values, path, property, value)
               [] OTHER -> deleteProperty(values, path, property)
    IN /\ last' = Called(kind, Append(path, property), value, 0, r.out)
       /\ values' = r.values
       /\ UNCHANGED <<running, theTarget>>

RecA(v) == Rec("a" :> v)
RecX(v) == Rec("x" :> v)
RecY(v) == Rec("y" :> v)
RecXY(v, w) == Rec("x" :> v @@ "y" :> w)

FromValues ==
    { S1, EmptyRec, RecA(S1), RecA(RecX(S1)), List(<<S1, S2>>),
      List(<<RecXY(S1, S2)>>), List(<<RecX(S1), RecY(S2)>>), RecA(List(<<S1>>)) }

SetValues == { S2, RecY(S2), List(<<S3>>) }

SetPaths == { <<>>, <<"a">> }

Paths == { <<>>, <<"a">>, <<"a", "x">> }

Init ==
    /\ \E v \in FromValues : values = From(v)
    /\ last = Called("from", <<>>, Undef, 0, Ok(Undef))
    /\ running = NoneRunning
    /\ theTarget = NoTarget

Set ==
    \E p \in SetPaths, v \in SetValues, w \in Weights :
        SetOp(p, v, w, FALSE, Undef)

ForcedValues == { RecY(S2), List(<<S3>>) }

SetForce ==
    \E v \in ForcedValues : SetOp(<<"a">>, v, 0, TRUE, Undef)

ResolvePath ==
    \E p \in Paths : ResolveOp(p, Undef, 0)

Next == Set \/ SetForce \/ ResolvePath

Spec == Init /\ [][Next]_vars

(***************************************************************************)
(* SpecRef: declarations that refer to the tree.  A value that is an       *)
(* accessor of another path (a reference), a condition that is a function  *)
(* or an accessor, resolve with a fallback, and resolve entered at a       *)
(* depth next to MAX_EVALUATION_DEPTH.                                     *)
(***************************************************************************)
RefFromValues == { EmptyRec, RecA(RecX(S1)) }

\* <<path, target>>: lazy.path.$set(lazy.target)
References ==
    { << <<"b">>, <<"a">> >>, << <<"y", "x">>, <<"b", "x">> >>,
      << <<"b">>, <<"y">> >>, << <<"b">>, <<"b">> >> }

Conditions == { Fn(False), Proxy(<<"a">>) }

Fallbacks == { Undef, RecX(S3) }

\* the depth argument of $resolve, next to the ceiling
Depths == { 98, 99 }

ResolvePaths == { <<>>, <<"b">>, <<"y", "x">> }

InitRef ==
    /\ \E v \in RefFromValues : values = From(v)
    /\ last = Called("from", <<>>, Undef, 0, Ok(Undef))
    /\ running = NoneRunning
    /\ theTarget = NoTarget

\* lazy.b.$set(lazy.a)
SetRef ==
    \E r \in References : SetOp(r[1], Proxy(r[2]), 0, FALSE, Undef)

\* lazy.b.$set(value, 0, false, condition)
SetIf ==
    \E c \in Conditions : SetOp(<<"b">>, S2, 0, FALSE, c)

ResolveOr ==
    \E p \in ResolvePaths, fb \in Fallbacks : ResolveOp(p, fb, 0)

ResolveDeep ==
    \E p \in ResolvePaths, d \in Depths : ResolveOp(p, Undef, d)

NextRef == SetRef \/ SetIf \/ ResolveOr \/ ResolveDeep

SpecRef == InitRef /\ [][NextRef]_vars

(***************************************************************************)
(* SpecSet: every kind of value set() accepts (scalar, resolver, accessor, *)
(* empty and non-empty records and lists, a record with a key that starts   *)
(* with '$'), with weight, force and condition, next to the reads of        *)
(* properties and the attempts to mutate through an accessor.               *)
(***************************************************************************)
RecSpecial(v, w) == Rec("$set" :> v @@ "a" :> w)

\* <<path, value, weight, force, condition>>: lazy.path.$set(value, weight, force, condition)
SetCalls ==
    { << <<"a">>, S1, 0, FALSE, Undef >>,
      << <<"a">>, Fn(S2), -1, FALSE, Fn(True) >>,
      << <<"a">>, Proxy(<<"b">>), 0, FALSE, Undef >>,
      << <<>>, EmptyList, 0, FALSE, Undef >>,
      << <<"a">>, RecXY(S1, EmptyRec), -1, FALSE, Fn(True) >>,
      << <<>>, RecA(List(<<S1, Fn(S2)>>)), 0, FALSE, Undef >>,
      << <<"a">>, RecX(S1), 0, TRUE, Undef >>,
      << <<"b">>, List(<<Proxy(<<"a">>), S1>>), 0, FALSE, Undef >>,
      << <<>>, RecSpecial(S1, S2), 0, FALSE, Undef >> }

\* the names read, assigned, defined or deleted through an accessor
Properties == { "a", "x", "$resolve" }

Mutations == { "assign", "define", "delete" }

AccessorPaths == { <<>>, <<"a">> }

InitSet ==
    /\ values = From(EmptyRec)
    /\ last = Called("from", <<>>, Undef, 0, Ok(Undef))
    /\ running = NoneRunning
    /\ theTarget = NoTarget

SetCall ==
    \E c \in SetCalls : SetOp(c[1], c[2], c[3], c[4], c[5])

Navigate ==
    \E p \in AccessorPaths, n \in Properties : GetOp(p, n)

Mutate ==
    \E kind \in Mutations, p \in AccessorPaths, n \in Properties :
        MutateOp(kind, p, n, S3)

\* the paths resolved: the root, a declared path, a path below nothing
ResolvedPaths == { <<>>, <<"a">>, <<"x", "y">> }

ResolveSet ==
    \E p \in ResolvedPaths, fb \in Fallbacks : ResolveOp(p, fb, 0)

NextSet == SetCall \/ Navigate \/ Mutate \/ ResolveSet

SpecSet == InitSet /\ [][NextSet]_vars

(***************************************************************************)
(* SpecOr: fallbacks.  References made by $ref with and without a fallback *)
(* (to a declared path, to a path that fails, to themselves) and resolve   *)
(* with and without a fallback, entered at depth 0 and at the ceiling.     *)
(***************************************************************************)
\* <<path, target>>: lazy.path.$set(lazy.$ref(v => v.target, fallback))
RefCalls ==
    { << <<"b">>, <<"a", "x">> >>, << <<"b">>, <<"y", "x">> >>,
      << <<"b">>, <<"b">> >> }

RefFallbacks == { Undef, S3 }

\* the depth argument of $resolve: the default, the last that passes, the first
\* that exceeds
EntryDepths == { 0, MAX_EVALUATION_DEPTH - 1, MAX_EVALUATION_DEPTH }

InitOr ==
    /\ \E v \in RefFromValues : values = From(v)
    /\ last = Called("from", <<>>, Undef, 0, Ok(Undef))
    /\ running = NoneRunning
    /\ theTarget = NoTarget

SetRefOr ==
    \E r \in RefCalls, fb \in RefFallbacks :
        SetOp(r[1], Ref(r[2], fb), 0, FALSE, Undef)

ResolveAt ==
    \E p \in ResolvePaths, fb \in Fallbacks, d \in EntryDepths : ResolveOp(p, fb, d)

NextOr == SetRefOr \/ ResolveAt

SpecOr == InitOr /\ [][NextOr]_vars

(***************************************************************************)
(* SpecCond: declarations under a condition made by combineConditions of   *)
(* concrete, asynchronous and tree-backed conditions that hold, that do    *)
(* not hold and that fail.                                                 *)
(***************************************************************************)
\* the flag x the tree-backed conditions read
CondFromValues == { RecX(True), RecX(False) }

\* the arguments of combineConditions; nothing is declared at a.x
CondLists ==
    { <<>>,
      <<Fn(True)>>,
      <<Fn(True), Proxy(<<"x">>)>>,
      <<Fn(Proxy(<<"x">>)), Proxy(<<"x">>)>>,
      <<Fn(False), Fn(True)>>,
      <<Proxy(<<"x">>), Proxy(<<"a", "x">>)>>,
      <<Fn(False), Fn(Proxy(<<"a", "x">>))>> }

CondPaths == { <<>>, <<"b">> }

InitCond ==
    /\ \E v \in CondFromValues : values = From(v)
    /\ last = Called("from", <<>>, Undef, 0, Ok(Undef))
    /\ running = NoneRunning
    /\ theTarget = NoTarget

\* lazy.b.$set('2', 0, false, Lazy.combineConditions(...cs))
SetIfAll ==
    \E cs \in CondLists : SetOp(<<"b">>, S2, 0, FALSE, Combined(cs))

\* lazy.b.$set('2', 0, false, () => lazy.x)
SetIfFlag ==
    SetOp(<<"b">>, S2, 0, FALSE, Fn(Proxy(<<"x">>)))

\* a condition that reads the path it gates, directly and through combineConditions
SelfConditions == { Proxy(<<"b">>), Combined(<<Proxy(<<"b">>)>>) }

\* lazy.b.$set('2', 0, false, lazy.b)
SetIfSelf ==
    \E c \in SelfConditions : SetOp(<<"b">>, S2, 0, FALSE, c)

\* lazy.x.$set(true), lazy.x.$set(false)
SetFlag ==
    \E flag \in { True, False } : SetOp(<<"x">>, flag, 0, FALSE, Undef)

ResolveCond ==
    \E p \in CondPaths : ResolveOp(p, Undef, 0)

NextCond == SetIfAll \/ SetIfFlag \/ SetIfSelf \/ SetFlag \/ ResolveCond

SpecCond == InitCond /\ [][NextCond]_vars

(***************************************************************************)
(* SpecRun: $resolve() calls on one store in flight at once.  Every set is *)
(* made before the first of them is invoked; a call then advances from one *)
(* await of Lazy.get to the next (the condition, the generator, the        *)
(* reference of the declaration at hand), the other calls free to run in   *)
(* between.  The nested calls an await waits for read the store as it is   *)
(* at that await.                                                          *)
(***************************************************************************)
RunPaths == { <<>>, <<"a">>, <<"b">> }

\* <<path, value, weight, condition>>: a reference, a generator, declarations under
\* a tree-backed and under an asynchronous condition
RunSets ==
    { << <<"b">>, Proxy(<<"a">>), 0, Undef >>,
      << <<"b">>, Fn(RecX(S2)), -1, Undef >>,
      << <<"a", "y">>, S3, 0, Proxy(<<"a", "x">>) >>,
      << <<"a", "x">>, S2, 0, Fn(False) >> }

InitRun ==
    /\ values = From(RecA(RecX(S1)))
    /\ last = Called("from", <<>>, Undef, 0, Ok(Undef))
    /\ running = NoneRunning
    /\ theTarget = NoTarget

InFlight(i) == running[i].pc \notin { "idle", "done" }

\* the caller's discipline: set is called only before the first resolve
SetBefore ==
    /\ \A i \in Procs : running[i].pc = "idle"
    /\ \E c \in RunSets : SetOp(c[1], c[2], c[3], FALSE, c[4])

\* const builder = new PathResultBuilder(): each call of get has its own
BuilderOf_Shared(i) == running[1].builder
BuilderOf(i) == running[i].builder

\* the call returns or throws out; beside are the calls in flight at that moment
Returns(i, out) ==
    [running[i] EXCEPT !.pc = "done", !.out = out,
                       !.beside = { j \in Procs : j # i /\ InFlight(j) }]

\* the end of a round of the for loop of get, the builder as the round leaves it
AfterRound(i, builder) ==
    [running[i] EXCEPT !.matched = Tail(@), !.builder = builder, !.temp = Undef,
                       !.pc = IF Tail(running[i].matched) = <<>>
                              THEN "result" ELSE "condition"]

\* call i moves on to `next`
Advance(i, next) ==
    /\ running' = [running EXCEPT ![i] = next]
    /\ last' = IF next.pc = "done"
               THEN Called("resolve", next.path, Undef, 0, next.out) ELSE last
    /\ UNCHANGED theTarget

\* path.$resolve(): get up to its first await
Entered(i, path, matched) ==
    IF Len(matched) <= 0 THEN Returns(i, TypeError("notfound"))
    ELSE [running[i] EXCEPT !.pc = "condition", !.path = path, !.matched = matched]
Invoke(i) ==
    /\ running[i].pc = "idle"
    /\ \E path \in RunPaths :
          Advance(i, [Entered(i, path, matchValues(values, path)) EXCEPT !.path = path])
    /\ UNCHANGED values

\* await Lazy.resolveCondition(value.condition, depth)
ConditionStep(i, c) ==
    IF c.k # "ok" THEN Returns(i, c)
    ELSE IF ~Truthy(c.v) THEN AfterRound(i, BuilderOf(i))
    ELSE [running[i] EXCEPT !.pc = "generator"]
Condition(i) ==
    /\ running[i].pc = "condition"
    /\ Advance(i, ConditionStep(i, Conditioned(values[Head(running[i].matched)],
                                               NestedAt(values, 2))))
    /\ UNCHANGED values

\* temp = await value.value()
GeneratorStep(i, temp) ==
    IF temp.k # "ok" THEN Returns(i, temp)
    ELSE [running[i] EXCEPT !.pc = "reference", !.temp = temp.v]
Generator(i) ==
    /\ running[i].pc = "generator"
    /\ Advance(i, GeneratorStep(i, Invoked(values[Head(running[i].matched)],
                                           Head(running[i].matched),
                                           NestedAt(values, 2))))
    /\ UNCHANGED values

\* await temp.$resolve(undefined, depth), then builder.set of the clone
ReferenceStep(i, value, resolved) ==
    IF resolved.k # "ok" THEN Returns(i, resolved)
    ELSE AfterRound(i, BuilderSet(BuilderOf(i), value.path, cloneDeep(resolved.v),
                                  value.force, value.weight))
Reference(i) ==
    /\ running[i].pc = "reference"
    /\ Advance(i, ReferenceStep(i, values[Head(running[i].matched)],
                                Evaluated(running[i].temp, NestedAt(values, 2))))
    /\ UNCHANGED values

\* builder.resolve(), the traversal, and the return of $resolve
Result(i) ==
    /\ running[i].pc = "result"
    /\ Advance(i, Returns(i, Tried(Traverse(Built(Ok(BuilderOf(i))), running[i].path),
                                   Undef)))
    /\ values' = Merged(values, 0, Built(Ok(BuilderOf(i))))

NextRun ==
    \/ SetBefore
    \/ \E i \in Procs : Invoke(i)
    \/ \E i \in Procs : Condition(i)
    \/ \E i \in Procs : Generator(i)
    \/ \E i \in Procs : Reference(i)
    \/ \E i \in Procs : Result(i)

SpecRun == InitRun /\ [][NextRun]_vars

(***************************************************************************)
(* SpecTarget: Target.resolve over registered components, in its two       *)
(* forms: "A" validates the requirements of every registered component,    *)
(* then configures and builds them; "B" configures the registered          *)
(* components, keeps the enabled ones, validates their requirements among  *)
(* them and builds them.  A component's configure may enable another       *)
(* component through its ConfigurationContext.                             *)
(***************************************************************************)
Versions == { "A", "B" }

\* Component.requirements: the tokens of its ComponentMatchers; no component of
\* token "s" is ever registered
Requirements(c) ==
    CASE c = "p" -> { "q" }
      [] c = "r" -> { "s" }
      [] OTHER -> {}

\* what the configure of a component asks of its context: context.enable(token)
Enables(c) == IF c = "p" THEN { "q" } ELSE {}

\* ComponentMatcher.match(input): input.uuid === uuid of the token
match(token, input) == input = token

\* matches.length <= 0 for a requirement of one of `checked`, the matches
\* taken among `among`
Unmatched(checked, among) ==
    \E v \in checked : \E cur \in Requirements(v) :
        Cardinality({ v2 \in among : match(cur, v2) }) <= 0

InitTarget ==
    /\ values = From(EmptyRec)
    /\ last = Called("from", <<>>, Undef, 0, Ok(Undef))
    /\ running = NoneRunning
    /\ \E version \in Versions : theTarget = NewTarget(version)

TargetStep(next) ==
    /\ theTarget' = next
    /\ UNCHANGED <<values, last, running>>

\* components.register(token), or target.component(token, name, true)
Register ==
    /\ theTarget.phase = "idle"
    /\ \E c \in Components \ theTarget.data :
          TargetStep([theTarget EXCEPT !.data = @ \cup {c}])

\* target.enable(token): registers the component if need be, props.$set({enable: true})
Enabled(t, c) == [t EXCEPT !.data = @ \cup {c}, !.enable = @ \cup {c}]
Enable ==
    /\ theTarget.phase = "idle"
    /\ theTarget.version = "B"
    /\ \E c \in Components \ theTarget.enable : TargetStep(Enabled(theTarget, c))

\* values.map(async v => v.configure(context)): configure of each is invoked
Configuring(t, vs) ==
    [t EXCEPT !.phase = "configure", !.values = vs,
              !.configure = [c \in Units |-> IF c \in vs THEN "invoked" ELSE @[c]]]

\* values.map(async v => { await v.build() ... }): build of each is invoked
Building(t, vs) ==
    [t EXCEPT !.phase = "build", !.values = vs,
              !.build = [c \in Units |-> IF c \in vs THEN "invoked" ELSE @[c]]]

Failed(t) == [t EXCEPT !.phase = "failed"]

\* Target.resolve(params) up to its first await
Entry(t) ==
    IF t.version = "A" /\ t.requirements /\ Unmatched(t.data, t.data)
    THEN Failed(t)
    ELSE Configuring(t, t.data)
ResolveTarget ==
    /\ theTarget.phase = "idle"
    /\ \E requirements \in BOOLEAN :
          TargetStep(Entry([theTarget EXCEPT !.requirements = requirements]))

\* context.enable(token) in the configure of a component
ConfigureEnable ==
    /\ theTarget.phase = "configure"
    /\ theTarget.version = "B"
    /\ \E c \in Components : \E t \in Enables(c) :
          /\ theTarget.configure[c] = "invoked"
          /\ TargetStep(Enabled(theTarget, t))

\* await Promise.all(this.children.map(c => c.configure)): the children whose
\* configure is invoked
Mapped(children) == {}

\* Component.configure(context) runs to its end
Configured(t, c) ==
    [t EXCEPT !.configure =
        [k \in Units |-> IF k = c THEN "done"
                         ELSE IF k \in Mapped(Children(c)) THEN "done" ELSE @[k]]]
ConfigureDone ==
    /\ theTarget.phase = "configure"
    /\ \E c \in Components :
          /\ theTarget.configure[c] = "invoked"
          /\ TargetStep(Configured(theTarget, c))

\* after await Promise.all of the configures: the enabled components and their
\* requirements in "B", then the builds
Aggregated(t) == { c \in t.data : c \in t.enable }
Proceed(t) ==
    IF t.version = "A" THEN Building(t, t.values)
    ELSE IF t.requirements /\ Unmatched(Aggregated(t), Aggregated(t)) THEN Failed(t)
    ELSE Building(t, Aggregated(t))
BuildAll ==
    /\ theTarget.phase = "configure"
    /\ \A c \in theTarget.values : theTarget.configure[c] = "done"
    /\ TargetStep(Proceed(theTarget))

\* for (const c of this.children) result = await c.build(result): the child
\* whose build is awaited next
Waiting(t, c) ==
    { n \in 1..Len(Children(c)) :
        /\ t.build[Children(c)[n]] # "done"
        /\ \A m \in 1..(n - 1) : t.build[Children(c)[m]] = "done" }
BuildChild ==
    /\ theTarget.phase = "build"
    /\ \E c \in Units : \E n \in Waiting(theTarget, c) :
          /\ theTarget.build[c] = "invoked"
          /\ theTarget.build[Children(c)[n]] = "no"
          /\ TargetStep([theTarget EXCEPT !.build[Children(c)[n]] = "invoked"])

\* Component.build returns
BuildDone ==
    /\ theTarget.phase = "build"
    /\ \E c \in Units :
          /\ theTarget.build[c] = "invoked"
          /\ Waiting(theTarget, c) = {}
          /\ TargetStep([theTarget EXCEPT !.build[c] = "done"])

\* after await Promise.all of the builds: the Result is returned
Return ==
    /\ theTarget.phase = "build"
    /\ \A c \in theTarget.values : theTarget.build[c] = "done"
    /\ TargetStep([theTarget EXCEPT !.phase = "done"])

NextTarget ==
    \/ Register \/ Enable \/ ResolveTarget \/ ConfigureEnable \/ ConfigureDone
    \/ BuildAll \/ BuildChild \/ BuildDone \/ Return

SpecTarget == InitTarget /\ [][NextTarget]_vars

(***************************************************************************)
(* Vocabulary of the properties                                            *)
(***************************************************************************)
Resolved == last.op = "resolve"
ResolvedAt(p) == last.op = "resolve" /\ last.path = p /\ last.arg = Undef /\ last.depth = 0

\* one path is at, above or below the other
Comparable(p, q) == IsPrefix(p, q) \/ IsPrefix(q, p)

\* one path names a record key where the other appends to a list
KindClash(p, q) ==
    \E n \in 1..Len(p) :
        /\ n <= Len(q)
        /\ SubSeq(p, 1, n - 1) = SubSeq(q, 1, n - 1)
        /\ (p[n] = AppendKey) # (q[n] = AppendKey)

\* two declarations at these paths write to the same place
Competes(p, q) == Comparable(p, q) \/ KindClash(p, q)

\* a path of record keys: no list element on the way
RecordPath(p) == \A n \in 1..Len(p) : p[n] # AppendKey

Prefixes(p) == { SubSeq(p, 1, n) : n \in 0..Len(p) }
Rest(q, p) == SubSeq(p, Len(q) + 1, Len(p))

\* plain data: no resolver and no accessor anywhere in the value
RECURSIVE Plain(_)
Plain(v) ==
    IF IsRecord(v) THEN \A k \in DOMAIN v.f : Plain(v.f[k])
    ELSE IF IsList(v) THEN \A n \in 1..Len(v.e) : Plain(v.e[n])
    ELSE v.t \in {"s", "u"}

\* what an ancestor's resolved value q holds at p
Below(vals, q, p) ==
    LET r == Resolve(vals, q, Undef, 0)
    IN IF r.k = "ok" THEN Walk(r.v, Rest(q, p)) ELSE r

\* C1: a store made by Lazy.from(v), resolved at the root with no set call in
\* between, yields a value deeply equal to v, for every value v (scalars, records,
\* lists, lists of records included).
RoundTrip ==
    \A v \in FromValues :
        (values = From(v) /\ ResolvedAt(<<>>)) => last.out = Ok(v)

\* C2: of two unconditional scalar declarations at the same path of record keys
\* with weights w1 < w2 (anything else that writes at, above or below that path
\* being lighter than w2), the one with w2 is what the path and each of its ancestors
\* resolve to, whichever was recorded first.
WeightPrecedence ==
    \A i, j \in 1..Len(values) :
        ( /\ i # j
          /\ values[i].path = values[j].path
          /\ RecordPath(values[j].path)
          /\ values[i].value.t = "s" /\ values[j].value.t = "s"
          /\ values[i].condition = Undef /\ values[j].condition = Undef
          /\ values[i].weight < values[j].weight
          /\ \A k \in 1..Len(values) :
                (k # j /\ Competes(values[k].path, values[j].path))
                    => values[k].weight < values[j].weight )
        => \A q \in Prefixes(values[j].path) :
                Below(values, q, values[j].path) = Ok(values[j].value)

\* the heavier of two scalars at one path was recorded first, and an ancestor of
\* the path has been resolved to it
HeavierFirstResolved ==
    /\ Resolved /\ last.arg = Undef /\ last.out.k = "ok"
    /\ \E i, j \in 1..Len(values) :
        /\ i < j
        /\ values[i].path = values[j].path
        /\ RecordPath(values[i].path)
        /\ values[i].value.t = "s" /\ values[j].value.t = "s"
        /\ values[i].value # values[j].value
        /\ values[i].weight > values[j].weight
        /\ IsPrefix(last.path, values[i].path) /\ last.path # values[i].path
        /\ Walk(last.out.v, Rest(last.path, values[i].path)) = Ok(values[i].value)

\* C3: records declared for one path by separate set calls merge key by key at
\* every level: an unconditional plain value declared at a path of record keys is
\* found there in the resolved root (and in every resolved ancestor) unless some
\* other declaration writes at, above or below that very path.
DeepMerge ==
    \A i \in 1..Len(values) :
        ( /\ RecordPath(values[i].path)
          /\ Plain(values[i].value)
          /\ values[i].condition = Undef
          /\ \A k \in 1..Len(values) :
                k # i => ~Competes(values[k].path, values[i].path) )
        => \A q \in Prefixes(values[i].path) :
                Below(values, q, values[i].path) = Ok(values[i].value)

\* {a: {x: 1}} then {y: 2} under a: a has been resolved to {x: 1, y: 2}
MergedBothKeys ==
    /\ ResolvedAt(<<"a">>)
    /\ Len(values) = 2
    /\ values[1].path = <<"a", "x">> /\ values[2].path = <<"a", "y">>
    /\ values[1].weight = values[2].weight
    /\ last.out = Ok(RecXY(S1, S2))

\* the lists among the values
Lists(vs) == { v \in vs : IsList(v) }

\* C4: two non-forced list declarations at one path concatenate: the root
\* resolves to every element of both, the lighter list first and, at equal
\* weight, the one declared first.
ArrayAppend ==
    \A v1 \in Lists(FromValues), v2 \in Lists(SetValues), w \in Weights :
        (values = From(v1) \o SetDecls(<<>>, v2, w, FALSE, Undef) /\ ResolvedAt(<<>>))
            => last.out = Ok(List(IF w < 0 THEN v2.e \o v1.e ELSE v1.e \o v2.e))

\* C5: a forced declaration of plain v at p that is the last one recorded, nothing
\* at, above or below p being heavier: p resolves to exactly v.
ForcedOverwrite ==
    LET n == Len(values)
    IN ( /\ n > 0
         /\ ResolvedAt(values[n].path)
         /\ values[n].force /\ values[n].condition = Undef
         /\ Plain(values[n].value)
         /\ \A k \in 1..n :
                Comparable(values[k].path, values[n].path)
                    => values[k].weight <= values[n].weight )
       => last.out = Ok(values[n].value)

\* nothing is declared at p: no declaration at or below p, and above p only
\* scalars and empty records or lists
NothingDeclaredAt(p) ==
    \A k \in 1..Len(values) :
        /\ ~IsPrefix(p, values[k].path)
        /\ IsPrefix(values[k].path, p) =>
              (values[k].value.t = "s" \/ isEmptyObject(values[k].value))

\* C8: at a path where nothing was declared, resolve with a fallback returns the
\* fallback and resolve without one fails with the not-found error.
FallbackOnMissing ==
    (Resolved /\ last.depth = 0 /\ NothingDeclaredAt(last.path))
        => IF last.arg # Undef THEN last.out = Ok(last.arg)
           ELSE last.out = TypeError("notfound")

\* C10: resolving the same path again, with no set in between, returns a deeply
\* equal result.
IdempotentResolve ==
    [][ ( /\ last.op = "resolve" /\ last'.op = "resolve"
          /\ last'.path = last.path /\ last'.arg = last.arg /\ last'.depth = last.depth )
        => last'.out = last.out ]_vars

\* a list stored whole (forced) has had an element appended to it by a resolve
ResolvedOntoStoredList ==
    /\ Resolved /\ last.out.k = "ok" /\ IsList(last.out.v)
    /\ \E i, j \in 1..Len(values) :
        /\ values[i].path = last.path /\ IsList(values[i].value)
        /\ values[j].path = Append(last.path, AppendKey)
        /\ Len(last.out.v.e) > Len(values[i].value.e)

\* the store without its i-th declaration
Without(vals, i) == SubSeq(vals, 1, i - 1) \o SubSeq(vals, i + 1, Len(vals))

\* C6: a declaration whose condition resolves to false has no effect on the
\* resolution: the outcome (value or error) is the one of the store in which the
\* declaration was never recorded, also when it is the only one matching the path.
ConditionalInclusion ==
    \A i \in 1..Len(values) :
        ( /\ Resolved
          /\ values[i].condition # Undef
          /\ resolveCondition(values[i].condition, NestedAt(values, last.depth + 2))
                = Ok(False) )
        => last.out = Resolve(Without(values, i), last.path, last.arg, last.depth)

\* a declaration whose value is a reference
IsReference(d) == IsFunction(d.value) /\ IsProxy(d.value.ret)

\* no accessor and no function is left in a resolved value
RECURSIVE NoResidual(_)
NoResidual(v) ==
    IF IsRecord(v) THEN \A k \in DOMAIN v.f : NoResidual(v.f[k])
    ELSE IF IsList(v) THEN \A n \in 1..Len(v.e) : NoResidual(v.e[n])
    ELSE ~IsProxy(v) /\ ~IsFunction(v)

\* C7: an unconditional declaration whose value is a reference to a path of the
\* same tree (nothing else writing at, above or below the declaration's path)
\* resolves, in the root and in every ancestor that resolves, to the resolved value
\* of the path referred to, through chains of references too; and no resolved
\* value holds a reference or a function.
SelfReference ==
    /\ \A i \in 1..Len(values) :
        ( /\ IsReference(values[i])
          /\ values[i].condition = Undef
          /\ RecordPath(values[i].path)
          /\ \A k \in 1..Len(values) :
                k # i => ~Competes(values[k].path, values[i].path) )
        => \A q \in Prefixes(values[i].path) :
            LET target == Resolve(values, values[i].value.ret.path, Undef, 0)
                r == Resolve(values, q, Undef, 0)
            IN (r.k = "ok" /\ target.k = "ok")
                  => Walk(r.v, Rest(q, values[i].path)) = target
    /\ (Resolved /\ last.out.k = "ok" /\ last.arg = Undef) => NoResidual(last.out.v)

\* a = {x: 1}, b = reference to a, y.x = reference to b.x: the root has been
\* resolved to {a: {x: 1}, b: {x: 1}, y: {x: 1}}
ChainResolved ==
    /\ ResolvedAt(<<>>)
    /\ Len(values) = 3
    /\ values[2] = Decl(<<"b">>, Fn(Proxy(<<"a">>)), 0, FALSE, Undef)
    /\ values[3] = Decl(<<"y", "x">>, Fn(Proxy(<<"b", "x">>)), 0, FALSE, Undef)
    /\ last.out = Ok(Rec("a" :> RecX(S1) @@ "b" :> RecX(S1) @@ "y" :> RecX(S1)))

Max(S) == CHOOSE m \in S : \A n \in S : n <= m

\* more levels than any resolution that ends
Unbounded == MAX_EVALUATION_DEPTH + 1

\* the paths the declarations at, above and below p refer to
RefersTo(vals, p) ==
    UNION { Targets(vals[i].value) \cup Targets(vals[i].condition) :
                i \in { k \in 1..Len(vals) : Comparable(vals[k].path, p) } }

\* how many levels deep resolving p nests, p itself being level 1; a chain longer
\* than the store has declarations passes twice through one of them: a cycle
RECURSIVE Levels(_, _, _)
Levels(vals, p, fuel) ==
    IF fuel = 0 THEN Unbounded
    ELSE LET below == { Levels(vals, t, fuel - 1) : t \in RefersTo(vals, p) }
         IN IF Unbounded \in below THEN Unbounded ELSE 1 + Max(below \cup {0})

Nesting(vals, p) == Levels(vals, p, Len(vals) + 1)

\* every path referred to, and p, has a declaration at or below it, and no
\* declaration carries a condition: each reference met is followed
Grounded(vals, p) ==
    /\ \A q \in NestedPaths(vals) \cup {p} :
            \E k \in 1..Len(vals) : IsPrefix(q, vals[k].path)
    /\ \A k \in 1..Len(vals) : vals[k].condition = Undef

\* C9: a resolve entered at depth d whose references nest n levels deep (itself
\* counted as level 1, a cycle nesting without bound): if d + n <= 100 the depth
\* error is not raised; if d + n > 100 and every reference is followed, the
\* resolve ends with the depth error, with or without a fallback.
CycleTermination ==
    Resolved =>
        LET n == Nesting(values, last.path)
        IN IF n # Unbounded /\ last.depth + n <= MAX_EVALUATION_DEPTH
           THEN last.out.k # "Error"
           ELSE Grounded(values, last.path) => last.out = DepthError

\* a cycle of references has been resolved from depth 0 and ended in the depth error
CycleEnded ==
    /\ Resolved /\ last.depth = 0
    /\ Nesting(values, last.path) = Unbounded
    /\ Grounded(values, last.path)
    /\ last.out = DepthError

\* C11: a set call only adds declarations at the end of the store: what was
\* recorded before is still there, in the same order and unaltered in path, value,
\* weight, force and condition, and the call is represented by at least one
\* further declaration.
AppendOnly ==
    [][ last'.op = "set" =>
            /\ Len(values') > Len(values)
            /\ SubSeq(values', 1, Len(values)) = values ]_vars

\* a set call has added to a store that already held two declarations
SetOntoTwo ==
    /\ last.op = "set"
    /\ Len(values) >= 3
    /\ values[1] # values[3]

\* the declarations a step has added at the end of the store
Recorded(before, after) == SubSeq(after, Len(before) + 1, Len(after))

\* a non-empty record or list
NonEmptyComposite(v) == (IsRecord(v) /\ DOMAIN v.f # {}) \/ (IsList(v) /\ v.e # <<>>)

\* the leaves of a value: <<path below the value, leaf>>, an element of a list
\* at the append marker followed by its position in the list
RECURSIVE Leaves(_)
Leaves(v) ==
    IF ~NonEmptyComposite(v) THEN { << <<>>, <<>>, v >> }
    ELSE IF IsRecord(v)
    THEN UNION { { << <<k>> \o l[1], <<0>> \o l[2], l[3] >> : l \in Leaves(v.f[k]) }
                 : k \in DOMAIN v.f }
    ELSE UNION { { << <<AppendKey>> \o l[1], <<n>> \o l[2], l[3] >> : l \in Leaves(v.e[n]) }
                 : n \in 1..Len(v.e) }

\* a declared value holds the given one: the value itself, an accessor as the
\* resolver that returns it
Holds(declared, given) ==
    IF IsProxy(given) THEN declared = Fn(given) ELSE declared = given

RECURSIVE Over(_, _)
Over(fallback, resolved) ==
    IF IsRecord(fallback) /\ IsRecord(resolved)
    THEN Rec([k \in (DOMAIN fallback.f) \cup (DOMAIN resolved.f) |->
                IF k \notin DOMAIN resolved.f THEN fallback.f[k]
                ELSE IF k \notin DOMAIN fallback.f THEN resolved.f[k]
                ELSE Over(fallback.f[k], resolved.f[k])])
    ELSE resolved

\* what the path resolves to with no fallback
Unaided == Resolve(values, last.path, Undef, 0)

\* C13: resolve(fallback) at a path that resolves to a defined value returns the
\* fallback with the resolved value deep-merged over it when that value is a record,
\* and the resolved scalar itself, not the fallback, when it is a scalar.
FallbackOnSuccess ==
    ( /\ Resolved /\ last.depth = 0 /\ last.arg # Undef
      /\ Unaided.k = "ok"
      /\ IsRecord(Unaided.v) \/ Unaided.v.t = "s" )
        => IF IsRecord(Unaided.v) THEN last.out = Ok(Over(last.arg, Unaided.v))
           ELSE last.out = Unaided

InvalidAssignment ==
    [][ (last'.op = "set" /\ IsProxy(last'.arg)) =>
            /\ last'.out.k = "Error"
            /\ values' = values ]_vars

\* what the target of the reference held by declaration i resolves to, inside the
\* last resolve
TargetOf(i) == Resolve(values, values[i].value.path, Undef, last.depth + 1)

\* declaration i is the one declaration at or below its path, and above it only
\* empty records are declared
AloneAt(i) ==
    \A k \in 1..Len(values) :
        k # i =>
            /\ ~IsPrefix(values[i].path, values[k].path)
            /\ IsPrefix(values[k].path, values[i].path) => values[k].value = EmptyRec

DepthAlwaysFatal ==
    (Resolved /\ last.arg # Undef) =>
        LET alone == Resolve(values, last.path, Undef, last.depth)
        IN /\ alone = DepthError => last.out = DepthError
           /\ alone.k = "TypeError" => last.out = Ok(last.arg)

\* resolve with a fallback, entered at depth 0, has failed with depth-exceeded
\* raised levels below it
DepthNotRecovered ==
    /\ Resolved /\ last.arg # Undef /\ last.depth = 0
    /\ last.out = DepthError

Special(k) == k \in { "$set" } \cup Members

\* no key that starts with '$' anywhere in a value
RECURSIVE NoSpecial(_)
NoSpecial(v) ==
    IF IsRecord(v)
    THEN \A k \in DOMAIN v.f : ~Special(k) /\ NoSpecial(v.f[k])
    ELSE IF IsList(v) THEN \A n \in 1..Len(v.e) : NoSpecial(v.e[n])
    ELSE TRUE

\* C20: the keys that start with '$' in a value given to set never show up in a
\* resolved result.
SpecialFieldsNotMerged ==
    (Resolved /\ last.out.k = "ok") => NoSpecial(last.out.v)

\* what one condition resolves to when Lazy.resolveCondition(c) is called on it
Alone(c) ==
    IF IsProxy(c) THEN Resolve(values, c.path, Undef, 0)
    ELSE IF IsProxy(c.ret) THEN Resolve(values, c.ret.path, Undef, 0)
    ELSE Ok(c.ret)

\* what the condition of declaration i resolves to inside the last resolve
ConditionOf(i) == resolveCondition(values[i].condition, NestedAt(values, last.depth + 2))

\* C18: the condition combineConditions(c1..cn) makes resolves to true if and only
\* if every ci resolves to true (to true for n = 0); every ci is evaluated, concrete,
\* asynchronous or tree-backed, and the failure of any ci makes the combined
\* condition fail, a ci before it that resolved to false notwithstanding.  A resolve
\* of the path of a declaration under it, the only one there, fails where the
\* condition fails and yields the declared value where it holds.
CombinedConditions ==
    \A i \in 1..Len(values) :
        (Resolved /\ IsCombined(values[i].condition)) =>
            LET cs == values[i].condition.cs
                failed == \E n \in 1..Len(cs) : Alone(cs[n]).k # "ok"
                holds == \A n \in 1..Len(cs) :
                            Alone(cs[n]).k = "ok" /\ Truthy(Alone(cs[n]).v)
            IN /\ failed <=> ConditionOf(i).k # "ok"
               /\ holds <=> ConditionOf(i) = Ok(True)
               /\ (~failed /\ ~holds) <=> ConditionOf(i) = Ok(False)
               /\ (last.path = values[i].path /\ AloneAt(i)) =>
                     /\ failed => last.out.k # "ok"
                     /\ holds => last.out = Ok(values[i].value)

\* b was resolved under a combined condition whose first condition resolved to
\* false and whose second failed, and the resolve failed
FailedPastFalse ==
    /\ Resolved /\ last.path = <<"b">>
    /\ Len(values) = 2
    /\ values[1] = Decl(<<"x">>, False, 0, FALSE, Undef)
    /\ values[2].condition = Combined(<<Proxy(<<"x">>), Proxy(<<"a", "x">>)>>)
    /\ last.out = TypeError("notfound")

\* the declarations the last resolve applied, in the order get applied them
Applied == matchValues(values, last.path)

\* C21: get applies the matching declarations in ascending order of weight and,
\* among declarations of equal weight, in the order they were recorded, whatever
\* paths (the requested one, an ancestor, a descendant) they were declared at.
TieBreakByOrder ==
    Resolved =>
        \A a, b \in 1..Len(Applied) :
            a < b =>
                \/ values[Applied[a]].weight < values[Applied[b]].weight
                \/ /\ values[Applied[a]].weight = values[Applied[b]].weight
                   /\ Applied[a] < Applied[b]

\* C22: a condition is evaluated at each resolution, not when the declaration is
\* recorded: a resolve includes a conditional declaration exactly if its condition
\* resolves to true on the store as it is at that resolve, whatever it resolved to
\* at an earlier resolve or when set was called, the declaration being recorded once.
EvaluatedAtResolve ==
    \A i \in 1..Len(values) :
        ( /\ Resolved
          /\ values[i].condition # Undef
          /\ last.path = values[i].path
          /\ AloneAt(i)
          /\ ConditionOf(i).k = "ok" )
            => (Truthy(ConditionOf(i).v) <=> last.out = Ok(values[i].value))

\* b was declared under the condition x while x was false, x was set to true
\* afterwards, and b has resolved to the declared value
IncludedLater ==
    /\ Resolved /\ last.path = <<"b">>
    /\ values = << Decl(<<"x">>, False, 0, FALSE, Undef),
                   Decl(<<"b">>, S2, 0, FALSE, Fn(Proxy(<<"x">>))),
                   Decl(<<"x">>, True, 0, FALSE, Undef) >>
    /\ last.out = Ok(S2)

\* tree indexed by the keys of p, undefined from the first key that is missing
RECURSIVE ValueAt(_, _)
ValueAt(tree, p) ==
    IF p = <<>> THEN tree
    ELSE IF IsRecord(tree) /\ Head(p) \in DOMAIN tree.f
    THEN ValueAt(tree.f[Head(p)], Tail(p))
    ELSE Undef

\* the tree the last resolve merged, before the traversal
MergedTree == GetBuild(values, last.path, NestedAt(values, last.depth + 2))

\* C23: when the merged value is defined but walking the requested path through it
\* reaches an undefined node while keys of the path remain, get fails with the
\* undefined-intermediate error; resolve returns the fallback if one was supplied
\* and fails with that error otherwise.
UndefinedIntermediate ==
    ( /\ Resolved /\ last.depth = 0
      /\ MergedTree.k = "ok" /\ MergedTree.v # Undef
      /\ \E n \in 0..(Len(last.path) - 1) :
            ValueAt(MergedTree.v, SubSeq(last.path, 1, n)) = Undef )
        => IF last.arg # Undef THEN last.out = Ok(last.arg)
           ELSE last.out = TypeError("undefined")

\* x.y was resolved with no fallback on a store whose merged tree has no x, and
\* the resolve failed with the undefined-intermediate error
WalkedIntoUndefined ==
    /\ Resolved /\ last.path = <<"x", "y">> /\ last.arg = Undef
    /\ Len(values) >= 2
    /\ MergedTree.k = "ok" /\ IsRecord(MergedTree.v)
    /\ last.out = TypeError("undefined")

\* C24: a nested resolution runs one level deeper than the resolution that
\* triggered it, through conditions built with combineConditions too: a resolve of
\* a path gated by a condition that reads that path, directly or through
\* combineConditions, ends in depth-exceeded.
DepthThroughConditions ==
    \A i \in 1..Len(values) :
        ( /\ Resolved /\ last.arg = Undef
          /\ last.path = values[i].path
          /\ AloneAt(i)
          /\ last.path \in Targets(values[i].condition) )
            => last.out = DepthError

\* what the root resolves to
Whole == Resolve(values, <<>>, Undef, 0)

\* C25: for a path p of record keys, if resolving the root succeeds with R and R
\* indexed by p is defined, resolving p returns a value deeply equal to R indexed
\* by p.
PathConsistency ==
    ( /\ Resolved /\ last.arg = Undef /\ last.depth = 0
      /\ RecordPath(last.path)
      /\ Whole.k = "ok"
      /\ ValueAt(Whole.v, last.path) # Undef )
        => last.out = Ok(ValueAt(Whole.v, last.path))

\* C26: the declarations get(path) applies are exactly those whose path equals
\* path, is a prefix of it (up to the root) or strictly extends it, each applied
\* exactly once; a declaration at any other path is never applied and, in a tree
\* without references or conditions, does not change what path resolves to.
MatchSet ==
    Resolved =>
        /\ { Applied[n] : n \in 1..Len(Applied) }
              = { i \in 1..Len(values) : Comparable(values[i].path, last.path) }
        /\ \A m, n \in 1..Len(Applied) : Applied[m] = Applied[n] => m = n
        /\ \A i \in 1..Len(values) :
              ~Comparable(values[i].path, last.path) =>
                  last.out = Resolve(Without(values, i), last.path, last.arg, last.depth)

\* a.x was resolved on a store that holds a declaration on the sibling branch a.y
SiblingLeftOut ==
    /\ Resolved /\ last.path = <<"a", "x">>
    /\ \E i, j \in 1..Len(values) :
          /\ values[i].path = <<"a", "y">>
          /\ values[j].path = <<"a", "x">>
    /\ last.out = Ok(S1)

\* C27: resolve(fallback) does not modify the fallback object the caller passed:
\* after the call it is deeply equal to what it was before.
FallbackUntouched ==
    (Resolved /\ last.arg # Undef) => last.left = last.arg

\* C28: when every set call has completed before the first resolve is invoked, a
\* resolve that ran interleaved with others of the same store at their awaits
\* returns what it returns when run alone on that store.
Isolation ==
    \A i \in Procs :
        running[i].pc = "done"
            => running[i].out = Resolve(values, running[i].path, Undef, 0)

\* two resolves have returned values, the first while the second was in flight,
\* on a store holding a reference and a declaration under a condition
Overlapped ==
    /\ \A i \in Procs : running[i].pc = "done" /\ running[i].out.k = "ok"
    /\ running[1].beside = {2}
    /\ running[1].path = <<>>
    /\ running[2].path = <<"b">>
    /\ \E n \in 1..Len(values) : Targets(values[n].value) # {}
    /\ \E n \in 1..Len(values) : values[n].condition # Undef

\* C29: no build of a component is started before the configure of every
\* registered component has completed; and while some registered component has a
\* requirement that matches no registered component and requirement validation
\* is not disabled, Target.resolve starts no build and does not return a Result.
PhaseOrdering ==
    /\ (\E c \in Units : theTarget.build[c] # "no")
          => \A r \in theTarget.data : theTarget.configure[r] = "done"
    /\ (theTarget.requirements /\ Unmatched(theTarget.data, theTarget.data))
          => /\ \A c \in Units : theTarget.build[c] = "no"
             /\ theTarget.phase # "done"

\* C30: once configure of a component has completed, configure has been invoked
\* on each of its children, as build is invoked on each child before build of the
\* component returns.
ConfigureReachesChildren ==
    \A c \in Components :
        \A n \in 1..Len(Children(c)) :
            /\ theTarget.configure[c] = "done" => theTarget.configure[Children(c)[n]] # "no"
            /\ theTarget.build[c] = "done" => theTarget.build[Children(c)[n]] # "no"

====
